---------------------------- MODULE Spec2Model ----------------------------
(***************************************************************************)
(* Actor network analysis: the three programs of the repository.           *)
(*   pathfinder              src/pathfindermain.cpp, src/actorgraph.hpp    *)
(*   predictorandrecommender src/predictormain.cpp                         *)
(*   popularityfinder        src/unnamed/part_000                          *)
(* A tsv row is <<actor, title, year>>: actor and title are strings, the   *)
(* year field is the sequence of its characters (so that appending it to   *)
(* the title and parsing it with stoi are both computed, not assumed).     *)
(***************************************************************************)
EXTENDS Integers, Sequences, FiniteSets, TLC

VARIABLES
    pc,              \* position of the running program
    tsv_file,        \* rows of the data file after the header
    \* ---- pathfinder (ActorGraph) ----
    use_weighted_edges,
    actor_map,       \* actor name -> sequence of movie keys
    movie_map,       \* movie key  -> [first: weight, second: cast]
    vertices,        \* actor name -> Vertex record
    pq,              \* the vector under the priority_queue (pq[1] is top)
    working,         \* Vertex* working (a name)
    start_name,
    end_name,
    output,          \* lines written to the output file, header excluded
    queried,         \* pairs read from the pairs file so far
    \* ---- predictorandrecommender / popularityfinder ----
    name_to_int,     \* actor name -> id (0-based)
    int_to_name,     \* id+1 -> actor name
    graph,           \* graph[i+1][j+1], adjacency matrix
    actors,          \* target names read from the targets file
    interact_file,   \* lines written by FindInteractions(true)
    collab_file,     \* lines written by FindInteractions(false)
    mutual_count,    \* FindInteractions: the vector of each target, last call
    k,               \* popularityfinder: argv[2]
    counts,          \* popularityfinder: counts[i+1]
    not_done,        \* popularityfinder: flag of the pruning loop
    names            \* popularityfinder: names written, in order

pathVars == <<use_weighted_edges, actor_map, movie_map, vertices, pq, working,
              start_name, end_name, output, queried>>
matVars  == <<name_to_int, int_to_name, graph, actors>>
predVars == <<interact_file, collab_file, mutual_count>>
popVars  == <<k, counts, not_done, names>>
vars     == <<pc, tsv_file, pathVars, matVars, predVars, popVars>>

---------------------------------------------------------------------------
(* Bounds of the model *)

\* rows of a data file drawn freely from RowUniverse
MaxRecs == 3
\* actor names used by the two-movie data files (casts drawn from them)
MaxActors == 6
\* lines of the targets file of predictorandrecommender
MaxTargets == 1
\* largest k handed to popularityfinder (the smallest is -1)
MaxK == 3
\* lines of the pairs file of pathfinder
MaxQueries == 2

---------------------------------------------------------------------------
(* Strings *)

Alphabet == <<"A", "B", "C", "D", "E", "F", "G", "H", "I", "J">>

\* position of a one-letter name in the alphabet; the empty string is 0
Ord(s) == IF s = "" THEN 0 ELSE CHOOSE i \in 1..Len(Alphabet) : Alphabet[i] = s

\* std::string operator< on the names of the model
StrLess(x, y) == Ord(x) < Ord(y)

RECURSIVE Join(_)
\* the string made of a sequence of characters
Join(cs) == IF cs = <<>> THEN "" ELSE Head(cs) \o Join(Tail(cs))

DigitVal(c) ==
    CASE c = "0" -> 0 [] c = "1" -> 1 [] c = "2" -> 2 [] c = "3" -> 3
      [] c = "4" -> 4 [] c = "5" -> 5 [] c = "6" -> 6 [] c = "7" -> 7
      [] c = "8" -> 8 [] c = "9" -> 9

RECURSIVE StoiFrom(_, _)
StoiFrom(cs, acc) ==
    IF cs = <<>> THEN acc ELSE StoiFrom(Tail(cs), 10 * acc + DigitVal(Head(cs)))

\* stoi on a field of decimal digits
stoi(cs) == StoiFrom(cs, 0)

Range(s) == {s[i] : i \in 1..Len(s)}

Min(a, b) == IF a < b THEN a ELSE b

RECURSIVE SeqsUpTo(_, _)
\* all sequences over S of length 0..n
SeqsUpTo(S, n) ==
    IF n = 0 THEN {<<>>}
    ELSE LET shorter == SeqsUpTo(S, n - 1)
         IN  shorter \cup {Append(s, x) : s \in {t \in shorter : Len(t) = n - 1}, x \in S}


---------------------------------------------------------------------------
(* Data files *)

EmptyMap == [x \in {} |-> x]

FirstNames(n) == {Alphabet[i] : i \in 1..n}

RECURSIVE SortedSeq(_)
\* the names of a set in alphabetical order
SortedSeq(S) ==
    IF S = {} THEN <<>>
    ELSE LET m == CHOOSE x \in S : \A y \in S : Ord(x) <= Ord(y)
         IN  <<m>> \o SortedSeq(S \ {m})

\* the rows of one movie, one row per cast member
Block(title, year, cast) == [i \in 1..Len(cast) |-> <<cast[i], title, year>>]

\* (title, year) of the freely drawn rows; "X"+"19" and "X1"+"9" are two
\* movies whose title and year concatenate to the same characters
RowMovies == {<<"X", <<"1", "9">>>>, <<"X1", <<"9">>>>, <<"Y", <<"9">>>>}

RowUniverse == {<<a, m[1], m[2]>> : a \in {"A", "B"}, m \in RowMovies}

\* every data file of 1..MaxRecs rows
FreeFiles == SeqsUpTo(RowUniverse, MaxRecs) \ {<<>>}

\* data files of two movies: the first cast is the first m names, the
\* second any set of names
TwoMovieFiles ==
    {Block("X1", <<"9">>, SortedSeq(FirstNames(m))) \o Block("Y", <<"9">>, SortedSeq(c)) :
        m \in 0..MaxActors, c \in SUBSET FirstNames(MaxActors)} \ {<<>>}

MatrixFiles == FreeFiles \cup TwoMovieFiles

\* rows of three fields, and rows of one, two and four fields
GoodRows == {<<a, "X", <<"1", "9">>>> : a \in {"A", "B"}}

BadRows ==
    {<<"B">>, <<"B", "X">>, <<"B", "X", <<"1", "9">>, "Z">>, <<"C", "X", <<"1", "9">>, "Z">>}

\* at most one row that has not three fields, between at most one good row
\* before it and one after it
FormatFiles ==
    {(pre \o mid) \o post : pre \in SeqsUpTo(GoodRows, 1), mid \in SeqsUpTo(BadRows, 1),
                            post \in SeqsUpTo(GoodRows, 1)} \ {<<>>}

---------------------------------------------------------------------------
(* BuildStructures: predictormain.cpp 111-175, part_000 131-201 *)

\* record[1] and record[2] are read with no test of record.size(): on a
\* record of fewer than three fields they are reads past the end of the
\* vector, which give any string or end the program
GarbageTitles == {"", "X"}

GarbageYears == {<<>>, <<"9">>}

HasShortRecord(rows) == \E i \in 1..Len(rows) : Len(rows[i]) < 3

\* the record as the loop body reads it, t and y standing for what the reads
\* past the end give
ReadPastEnd(record, t, y) ==
    IF Len(record) = 1 THEN <<record[1], t, y>>
    ELSE IF Len(record) = 2 THEN <<record[1], record[2], y>>
    ELSE record

ReadPastEndAll(rows, t, y) == [i \in 1..Len(rows) |-> ReadPastEnd(rows[i], t, y)]

\* one iteration of the reading loop on the row `record`
ReadRow(st, record) ==
    LET actor_name  == record[1]
        movie_title == record[2] \o Join(record[3])
        known       == actor_name \in DOMAIN st.name_to_int
    IN  [name_to_int |-> IF known THEN st.name_to_int
                         ELSE st.name_to_int @@ (actor_name :> Len(st.int_to_name)),
         int_to_name |-> IF known THEN st.int_to_name
                         ELSE Append(st.int_to_name, actor_name),
         movie_to_actor |->
             IF movie_title \in DOMAIN st.movie_to_actor
             THEN [st.movie_to_actor EXCEPT ![movie_title] = Append(@, actor_name)]
             ELSE st.movie_to_actor @@ (movie_title :> <<actor_name>>)]

RECURSIVE ReadRows(_, _)
ReadRows(st, rows) ==
    IF rows = <<>> THEN st ELSE ReadRows(ReadRow(st, Head(rows)), Tail(rows))

ReadTsv(rows) ==
    ReadRows([name_to_int |-> EmptyMap, int_to_name |-> <<>>,
              movie_to_actor |-> EmptyMap], rows)

\* graph[a][b] = 1 and graph[b][a] = 1 for the actors at positions i < j of
\* some movie's cast; every other entry keeps the 0 it was created with
AdjacencyMatrix(n2i, m2a, n) ==
    [a \in 1..n |-> [b \in 1..n |->
        IF \E m \in DOMAIN m2a : \E i \in 1..Len(m2a[m]) : \E j \in (i + 1)..Len(m2a[m]) :
               \/ n2i[m2a[m][i]] = a - 1 /\ n2i[m2a[m][j]] = b - 1
               \/ n2i[m2a[m][j]] = a - 1 /\ n2i[m2a[m][i]] = b - 1
        THEN 1 ELSE 0]]

RECURSIVE SumSeq(_)
SumSeq(s) == IF s = <<>> THEN 0 ELSE Head(s) + SumSeq(Tail(s))

\* counts[i] += graph[i][j] over every j
InitCounts(g) == [i \in 1..Len(g) |-> SumSeq(g[i])]

---------------------------------------------------------------------------
(* FindInteractions: predictormain.cpp 192-262 *)

predict_max == 4

\* a & b on entries of the matrix, which are 0 or 1
BitAnd(a, b) == IF a = 1 /\ b = 1 THEN 1 ELSE 0

\* the dot products alone, the target's own entry left as computed
MutualCountKeepOwn(g, row, u) ==
    [d \in 1..Len(row) |-> SumSeq([i \in 1..Len(row) |-> BitAnd(g[d][i], row[i])])]

\* the dot product of every row with `row`, then the target's own entry zeroed
MutualCount(g, row, u) ==
    [d \in 1..Len(row) |->
        IF d = u + 1 THEN 0
        ELSE SumSeq([i \in 1..Len(row) |-> BitAnd(g[d][i], row[i])])]

\* every column taken, whatever the mode
AnyEntry(entry, neighbor) == entry \in {0, 1}

\* row[i] == neighbor, the bool promoted to int
IsCandidate(entry, neighbor) == entry = (IF neighbor THEN 1 ELSE 0)

RECURSIVE Candidates(_, _, _, _, _)
\* the pairs pushed to predicts for columns i..row_size-1, in column order
Candidates(row, mc, i2n, neighbor, i) ==
    IF i > Len(row) THEN <<>>
    ELSE (IF IsCandidate(row[i], neighbor) THEN <<<<mc[i], i2n[i]>>>> ELSE <<>>)
         \o Candidates(row, mc, i2n, neighbor, i + 1)

\* an order by name alone
compareNames(x, y) == StrLess(x[2], y[2])

\* compare: larger count first, then smaller name first
compare(x, y) == IF x[1] = y[1] THEN StrLess(x[2], y[2]) ELSE x[1] > y[1]

RECURSIVE InsertPredict(_, _)
InsertPredict(sorted, x) ==
    IF sorted = <<>> THEN <<x>>
    ELSE IF compare(x, Head(sorted)) THEN <<x>> \o sorted
    ELSE <<Head(sorted)>> \o InsertPredict(Tail(sorted), x)

RECURSIVE SortPredicts(_)
\* sort(predicts.begin(), predicts.end(), compare)
SortPredicts(p) ==
    IF p = <<>> THEN <<>> ELSE InsertPredict(SortPredicts(Tail(p)), Head(p))

\* what follows a written name: a tab, except after the name at index 3
Separator(i) == IF i # predict_max - 1 THEN <<"\t">> ELSE <<>>

RECURSIVE WriteLine(_, _)
\* the output loop from index i on: the tokens written before the newline
WriteLine(p, i) ==
    IF i >= Len(p) THEN <<>>
    ELSE IF p[i + 1][1] = 0 \/ i >= predict_max THEN <<>>
    ELSE <<p[i + 1][2]>> \o Separator(i) \o WriteLine(p, i + 1)

\* the loop body for one target: name_to_int[actor] inserts id 0 for a name
\* the map does not hold
InteractOne(st, actor, neighbor) ==
    LET n2i == IF actor \in DOMAIN st.name_to_int THEN st.name_to_int
               ELSE st.name_to_int @@ (actor :> 0)
        u   == n2i[actor]
        row == graph[u + 1]
        mc  == MutualCount(graph, row, u)
        predicts == SortPredicts(Candidates(row, mc, int_to_name, neighbor, 1))
    IN  [name_to_int |-> n2i,
         lines  |-> Append(st.lines, WriteLine(predicts, 0)),
         mutual |-> Append(st.mutual, mc)]

RECURSIVE InteractAll(_, _, _)
InteractAll(st, targets, neighbor) ==
    IF targets = <<>> THEN st
    ELSE InteractAll(InteractOne(st, Head(targets), neighbor), Tail(targets), neighbor)

FindInteractionsResult(neighbor) ==
    InteractAll([name_to_int |-> name_to_int, lines |-> <<>>, mutual |-> <<>>],
                actors, neighbor)

---------------------------------------------------------------------------
(* predictorandrecommender: main, predictormain.cpp 58-92 *)

TargetFiles == SeqsUpTo(FirstNames(MaxActors), MaxTargets)

pathIdle ==
    /\ use_weighted_edges = FALSE /\ actor_map = EmptyMap /\ movie_map = EmptyMap
    /\ vertices = EmptyMap /\ pq = <<>> /\ working = "" /\ start_name = ""
    /\ end_name = "" /\ output = <<>> /\ queried = <<>>

matIdle ==
    /\ name_to_int = EmptyMap /\ int_to_name = <<>> /\ graph = <<>> /\ actors = <<>>

predIdle == interact_file = <<>> /\ collab_file = <<>> /\ mutual_count = <<>>

popIdle == k = 0 /\ counts = <<>> /\ not_done = FALSE /\ names = <<>>

PredictInit ==
    /\ pc = "predict_start"
    /\ tsv_file \in MatrixFiles
    /\ pathIdle /\ matIdle /\ predIdle /\ popIdle

\* BuildStructures(tsv_file, actors_file); the targets file is an input
PredictBuildStructures ==
    /\ pc = "predict_start"
    /\ \/ /\ HasShortRecord(tsv_file)
          /\ pc' = "predict_segv"
          /\ UNCHANGED matVars
       \/ /\ \E t \in GarbageTitles : \E y \in GarbageYears : \E lines \in TargetFiles :
               LET st == ReadTsv(ReadPastEndAll(tsv_file, t, y))
               IN  /\ name_to_int' = st.name_to_int
                   /\ int_to_name' = st.int_to_name
                   /\ graph' = AdjacencyMatrix(st.name_to_int, st.movie_to_actor,
                                               Len(st.int_to_name))
                   /\ actors' = lines
          /\ pc' = "predict_built"
    /\ UNCHANGED <<tsv_file, pathVars, predVars, popVars>>

\* FindInteractions(true, interact_file)
FindInteractionsTrue ==
    /\ pc = "predict_built"
    /\ LET r == FindInteractionsResult(TRUE)
       IN  /\ name_to_int' = r.name_to_int
           /\ interact_file' = r.lines
           /\ mutual_count' = r.mutual
    /\ pc' = "predict_interact"
    /\ UNCHANGED <<tsv_file, pathVars, int_to_name, graph, actors, collab_file, popVars>>

\* FindInteractions(false, collab_file)
FindInteractionsFalse ==
    /\ pc = "predict_interact"
    /\ LET r == FindInteractionsResult(FALSE)
       IN  /\ name_to_int' = r.name_to_int
           /\ collab_file' = r.lines
           /\ mutual_count' = r.mutual
    /\ pc' = "predict_done"
    /\ UNCHANGED <<tsv_file, pathVars, int_to_name, graph, actors, interact_file, popVars>>

PredictNext == PredictBuildStructures \/ FindInteractionsTrue \/ FindInteractionsFalse

SpecPredict == PredictInit /\ [][PredictNext]_vars

---------------------------------------------------------------------------
(* popularityfinder: main, part_000 55-117 *)

KRange == -1..MaxK

\* a vertex under k takes the deleted mark, its neighbours keep their counts
PruneAlone(c, g, kk, i) ==
    IF c[i] < kk /\ c[i] > -Len(c) THEN [c EXCEPT ![i] = -Len(c)] ELSE c

\* the body of the for loop at vertex i (1-based): a vertex under k that is
\* not deleted yet decrements every neighbour and takes the deleted mark
PruneVertex(c, g, kk, i) ==
    IF c[i] < kk /\ c[i] > -Len(c)
    THEN [j \in 1..Len(c) |->
            IF j = i THEN -Len(c)
            ELSE IF g[i][j] # 0 THEN c[j] - 1 ELSE c[j]]
    ELSE c

RECURSIVE PrunePassFrom(_, _, _, _, _)
\* one pass of the for loop from vertex i on: <<counts, not_done>>
PrunePassFrom(c, g, kk, i, nd) ==
    IF i > Len(c) THEN <<c, nd>>
    ELSE PrunePassFrom(PruneVertex(c, g, kk, i), g, kk, i + 1,
                       nd \/ (c[i] < kk /\ c[i] > -Len(c)))

RECURSIVE Kept(_, _, _, _)
\* names pushed for vertices i.. whose count is at least k
Kept(c, i2n, kk, i) ==
    IF i > Len(c) THEN <<>>
    ELSE (IF c[i] >= kk THEN <<i2n[i]>> ELSE <<>>) \o Kept(c, i2n, kk, i + 1)

RECURSIVE InsertName(_, _)
InsertName(sorted, x) ==
    IF sorted = <<>> THEN <<x>>
    ELSE IF StrLess(x, Head(sorted)) THEN <<x>> \o sorted
    ELSE <<Head(sorted)>> \o InsertName(Tail(sorted), x)

RECURSIVE SortNames(_)
\* sort(names.begin(), names.end())
SortNames(s) == IF s = <<>> THEN <<>> ELSE InsertName(SortNames(Tail(s)), Head(s))

PopularInit ==
    /\ pc = "popular_start"
    /\ tsv_file \in MatrixFiles
    /\ k \in KRange
    /\ counts = <<>> /\ not_done = FALSE /\ names = <<>>
    /\ pathIdle /\ matIdle /\ predIdle

\* BuildStructures(tsv_file), then bool not_done = true
PopularBuildStructures ==
    /\ pc = "popular_start"
    /\ \/ /\ HasShortRecord(tsv_file)
          /\ pc' = "popular_segv"
          /\ UNCHANGED <<name_to_int, int_to_name, graph, counts, not_done>>
       \/ /\ \E t \in GarbageTitles : \E y \in GarbageYears :
               LET st == ReadTsv(ReadPastEndAll(tsv_file, t, y))
                   g  == AdjacencyMatrix(st.name_to_int, st.movie_to_actor,
                                         Len(st.int_to_name))
               IN  /\ name_to_int' = st.name_to_int
                   /\ int_to_name' = st.int_to_name
                   /\ graph' = g
                   /\ counts' = InitCounts(g)
          /\ not_done' = TRUE
          /\ pc' = "popular_prune"
    /\ UNCHANGED <<tsv_file, pathVars, actors, predVars, k, names>>

\* one iteration of while (not_done)
PrunePass ==
    /\ pc = "popular_prune"
    /\ not_done
    /\ LET r == PrunePassFrom(counts, graph, k, 1, FALSE)
       IN  counts' = r[1] /\ not_done' = r[2]
    /\ UNCHANGED <<pc, tsv_file, pathVars, matVars, predVars, k, names>>

\* the survivors are collected, sorted and written
WriteNames ==
    /\ pc = "popular_prune"
    /\ ~not_done
    /\ names' = SortNames(Kept(counts, int_to_name, k, 1))
    /\ pc' = "popular_done"
    /\ UNCHANGED <<tsv_file, pathVars, matVars, predVars, k, counts, not_done>>

PopularNext == PopularBuildStructures \/ PrunePass \/ WriteNames

SpecPopular == PopularInit /\ [][PopularNext]_vars

---------------------------------------------------------------------------
(* ActorGraph::loadFromFile: actorgraph.hpp 162-218 *)

INT_MAX == 2147483647

\* the weight a movie gets when its key is first seen
MovieWeight(weighted, movie_year) == IF weighted THEN 2018 - movie_year + 1 ELSE 1

\* one iteration of the parsing loop on a row of three fields
LoadRow(st, record, weighted) ==
    LET actor_name  == record[1]
        movie_title == (record[2] \o "#@") \o Join(record[3])
        movie_year  == stoi(record[3])
        am == IF actor_name \in DOMAIN st.actor_map THEN st.actor_map
              ELSE st.actor_map @@ (actor_name :> <<>>)
        mm == IF movie_title \in DOMAIN st.movie_map THEN st.movie_map
              ELSE st.movie_map @@
                   (movie_title :> [first |-> MovieWeight(weighted, movie_year),
                                    second |-> <<>>])
    IN  [actor_map |-> [am EXCEPT ![actor_name] = Append(@, movie_title)],
         movie_map |-> [mm EXCEPT ![movie_title].second = Append(@, actor_name)],
         ok |-> TRUE]

RECURSIVE LoadRows(_, _, _)
\* the parsing loop; a row that has not three fields ends it with return false
LoadRows(st, rows, weighted) ==
    IF rows = <<>> THEN st
    ELSE IF Len(Head(rows)) # 3 THEN [st EXCEPT !.ok = FALSE]
    ELSE LoadRows(LoadRow(st, Head(rows), weighted), Tail(rows), weighted)

---------------------------------------------------------------------------
(* priority_queue<Vertex*, vector<Vertex*>, vertexComp>: the heap of       *)
(* libstdc++ (the Makefile builds with g++) over the vector pq.  The        *)
(* entries are pointers: the comparator reads the vertices as they are      *)
(* when it is called.  Indices are 0-based as in the library, pq[i + 1]     *)
(* holds index i.                                                           *)

\* vertexComp::operator()
vertexComp(V, x, y) ==
    IF V[x].dist # V[y].dist THEN V[x].dist > V[y].dist
    ELSE StrLess(V[x].prev_actor, V[y].prev_actor)

RECURSIVE PushHeap(_, _, _, _)
\* std::__push_heap with topIndex 0: the hole moves up while its parent
\* compares less than the value
PushHeap(V, h, holeIndex, value) ==
    LET parent == (holeIndex - 1) \div 2
    IN  IF holeIndex > 0 /\ vertexComp(V, h[parent + 1], value)
        THEN PushHeap(V, [h EXCEPT ![holeIndex + 1] = h[parent + 1]], parent, value)
        ELSE [h EXCEPT ![holeIndex + 1] = value]

\* pq.push(v): push_back, then push_heap
PqPush(V, h, v) == PushHeap(V, Append(h, v), Len(h), v)

RECURSIVE AdjustDown(_, _, _, _)
\* the first loop of std::__adjust_heap: the hole moves down to the child
\* that does not compare less, <<vector, holeIndex>>
AdjustDown(V, h, holeIndex, len) ==
    IF holeIndex < (len - 1) \div 2
    THEN LET right == 2 * (holeIndex + 1)
             child == IF vertexComp(V, h[right + 1], h[right]) THEN right - 1 ELSE right
         IN  AdjustDown(V, [h EXCEPT ![holeIndex + 1] = h[child + 1]], child, len)
    ELSE <<h, holeIndex>>

\* std::__adjust_heap(first, 0, len, value)
AdjustHeap(V, h, len, value) ==
    LET d    == AdjustDown(V, h, 0, len)
        h1   == d[1]
        hole == d[2]
        lone == len % 2 = 0 /\ len >= 2 /\ hole = (len - 2) \div 2
        h2   == IF lone THEN [h1 EXCEPT ![hole + 1] = h1[2 * (hole + 1)]] ELSE h1
        hole2 == IF lone THEN 2 * (hole + 1) - 1 ELSE hole
    IN  PushHeap(V, h2, hole2, value)

\* pq.pop(): pop_heap (nothing to do for one element), then pop_back
PqPop(V, h) ==
    IF Len(h) > 1
    THEN SubSeq(AdjustHeap(V, [h EXCEPT ![Len(h)] = h[1]], Len(h) - 1, h[Len(h)]),
                1, Len(h) - 1)
    ELSE <<>>

---------------------------------------------------------------------------
(* ActorGraph::findPath: actorgraph.hpp 234-309 *)

\* only the start vertex set up, the other fields left as they are
ResetStartOnly(V, start) == [V EXCEPT ![start].dist = 0]

\* the loop that initializes all vertices, then working->dist = 0
ResetVertices(V, start) ==
    [a \in DOMAIN V |->
        [dist |-> IF a = start THEN 0 ELSE INT_MAX, done |-> FALSE,
         prev_actor |-> "", prev_movie |-> ""]]

\* the test of one neighbour: the path through working is shorter
Improves(V, w, weight, adj) == V[w].dist + weight < V[adj].dist

RECURSIVE RelaxCast(_, _, _, _, _, _)
\* the inner loop over the cast of `movie` from position i on, <<V, pq>>
RelaxCast(V, h, w, movie, cast, i) ==
    IF i > Len(cast) THEN <<V, h>>
    ELSE LET adj == cast[i]
             weight == movie_map[movie].first
         IN  IF adj # w /\ Improves(V, w, weight, adj)
             THEN LET V1 == [V EXCEPT ![adj].prev_actor = w,
                                      ![adj].prev_movie = movie,
                                      ![adj].dist = V[w].dist + weight]
                  IN  RelaxCast(V1, PqPush(V1, h, adj), w, movie, cast, i + 1)
             ELSE RelaxCast(V, h, w, movie, cast, i + 1)

RECURSIVE RelaxMovies(_, _, _, _)
\* the outer loop over the movies of working, <<V, pq>>
RelaxMovies(V, h, w, movies) ==
    IF movies = <<>> THEN <<V, h>>
    ELSE LET r == RelaxCast(V, h, w, Head(movies), movie_map[Head(movies)].second, 1)
         IN  RelaxMovies(r[1], r[2], w, Tail(movies))

RECURSIVE WalkLoops(_, _, _)
\* the backward walk from w comes back to a vertex it has left
WalkLoops(V, w, seen) ==
    IF V[w].prev_actor = "" THEN FALSE
    ELSE IF V[w].prev_actor \in seen \cup {w} THEN TRUE
    ELSE WalkLoops(V, V[w].prev_actor, seen \cup {w})

RECURSIVE Chain(_, _)
\* the stack vs read from its top: start, movie, actor, ..., movie, w
Chain(V, w) ==
    IF V[w].prev_actor = "" THEN <<w>>
    ELSE Chain(V, V[w].prev_actor) \o <<V[w].prev_movie, w>>

RECURSIVE FormatPath(_)
\* the line written from the stack, as the strings handed to out_file
FormatPath(vs) ==
    IF Len(vs) > 1
    THEN <<"(", vs[1], ")--[", vs[2], "]-->">> \o FormatPath(SubSeq(vs, 3, Len(vs)))
    ELSE <<"(", vs[1], ")">>

---------------------------------------------------------------------------
(* pathfinder: main, pathfindermain.cpp 58-114 *)

PathMovies == {<<"M", <<"2", "0", "1", "8">>>>, <<"N", <<"2", "0", "2", "0">>>>}

PathRowUniverse == {<<a, m[1], m[2]>> : a \in {"A", "B", "C"}, m \in PathMovies}

\* A reaches C by B for weight 2; the queue pops C at distance 4 before B
StaleEntryFile ==
    Block("P", <<"2", "0", "1", "5">>, <<"A", "C">>)
    \o Block("Q", <<"2", "0", "1", "5">>, <<"A", "B">>)
    \o Block("R", <<"2", "0", "1", "6">>, <<"A", "C">>)
    \o Block("S", <<"2", "0", "1", "8">>, <<"A", "B">>)
    \o Block("T", <<"2", "0", "1", "8">>, <<"B", "C">>)

\* the same, with D in the place of C and C one hop behind D: D is popped and
\* marked done at distance 3, before B finds it at distance 2
DoneRelaxedFile ==
    Block("P", <<"2", "0", "1", "5">>, <<"A", "D">>)
    \o Block("Q", <<"2", "0", "1", "5">>, <<"A", "B">>)
    \o Block("R", <<"2", "0", "1", "6">>, <<"A", "D">>)
    \o Block("S", <<"2", "0", "1", "8">>, <<"A", "B">>)
    \o Block("T", <<"2", "0", "1", "8">>, <<"B", "D">>)
    \o Block("U", <<"2", "0", "1", "8">>, <<"D", "C">>)

\* F (found from D) and G (found from E) are both two hops from A: entries
\* of equal distance with different predecessors
TieFile ==
    Block("V", <<"2", "0", "1", "8">>, <<"A", "D">>)
    \o Block("W", <<"2", "0", "1", "8">>, <<"A", "E">>)
    \o Block("X", <<"2", "0", "1", "8">>, <<"D", "F">>)
    \o Block("Y", <<"2", "0", "1", "8">>, <<"E", "G">>)
    \o Block("Z", <<"2", "0", "1", "8">>, <<"F", "C">>)

PathFiles ==
    SeqsUpTo(PathRowUniverse, MaxRecs) \cup {StaleEntryFile, DoneRelaxedFile, TieFile}

\* names a line of the pairs file may hold
PairNames == {"A", "B", "C"}

\* what a write through the null Vertex* of an unknown start can end in
NullDerefOutcomes == {"path_segv", "path_undefined"}

PathInit ==
    /\ pc = "path_start"
    /\ tsv_file \in PathFiles
    /\ use_weighted_edges \in BOOLEAN
    /\ actor_map = EmptyMap /\ movie_map = EmptyMap /\ vertices = EmptyMap
    /\ pq = <<>> /\ working = "" /\ start_name = "" /\ end_name = ""
    /\ output = <<>> /\ queried = <<>>
    /\ matIdle /\ predIdle /\ popIdle

\* graph.loadFromFile(argv[1], weighted); the Vertex constructor leaves dist
\* and done unset, so they start with any value
LoadFromFile ==
    /\ pc = "path_start"
    /\ LET st == LoadRows([actor_map |-> EmptyMap, movie_map |-> EmptyMap, ok |-> TRUE],
                          tsv_file, use_weighted_edges)
       IN  /\ actor_map' = st.actor_map
           /\ movie_map' = st.movie_map
           /\ IF st.ok
              THEN /\ \E d \in {0, INT_MAX} : \E b \in BOOLEAN :
                        vertices' = [a \in DOMAIN st.actor_map |->
                                        [dist |-> d, done |-> b,
                                         prev_actor |-> "", prev_movie |-> ""]]
                   /\ pc' = "path_main"
              ELSE /\ vertices' = vertices
                   /\ pc' = "path_read_error"
    /\ UNCHANGED <<tsv_file, use_weighted_edges, pq, working, start_name, end_name,
                   output, queried, matVars, predVars, popVars>>

\* a line of the pairs file is read and findPath starts: the vertices are
\* initialized and the start vertex is pushed
FindPathBegin ==
    /\ pc = "path_main"
    /\ Len(queried) < MaxQueries
    /\ \E s \in PairNames : \E e \in PairNames :
         /\ start_name' = s
         /\ end_name' = e
         /\ queried' = Append(queried, <<s, e>>)
         /\ IF s \in DOMAIN vertices
            THEN /\ vertices' = ResetVertices(vertices, s)
                 /\ pq' = PqPush(vertices', <<>>, s)
                 /\ working' = s
                 /\ pc' = "path_loop"
            ELSE /\ pc' \in NullDerefOutcomes
                 /\ UNCHANGED <<vertices, pq, working>>
    /\ UNCHANGED <<tsv_file, use_weighted_edges, actor_map, movie_map, output,
                   matVars, predVars, popVars>>

\* one iteration of while (pq.size()); the loop is left on the end vertex or
\* when nothing is queued any more
PopStep ==
    /\ pc = "path_loop"
    /\ LET w  == pq[1]
           h1 == PqPop(vertices, pq)
       IN  /\ working' = w
           /\ IF w = end_name
              THEN /\ pq' = h1
                   /\ vertices' = vertices
                   /\ pc' = "path_walk"
              ELSE IF vertices[w].done
              THEN /\ pq' = h1
                   /\ vertices' = vertices
                   /\ pc' = IF h1 = <<>> THEN "path_walk" ELSE "path_loop"
              ELSE LET r == RelaxMovies([vertices EXCEPT ![w].done = TRUE], h1, w,
                                        actor_map[w])
                   IN  /\ vertices' = r[1]
                       /\ pq' = r[2]
                       /\ pc' = IF r[2] = <<>> THEN "path_walk" ELSE "path_loop"
    /\ UNCHANGED <<tsv_file, use_weighted_edges, actor_map, movie_map, start_name,
                   end_name, output, queried, matVars, predVars, popVars>>

\* the walk back over the predecessors and the line written from the stack;
\* a walk that comes back to a vertex never ends
WritePath ==
    /\ pc = "path_walk"
    /\ IF WalkLoops(vertices, working, {})
       THEN /\ pc' = "path_hung"
            /\ output' = output
       ELSE /\ pc' = "path_main"
            /\ output' = Append(output, FormatPath(Chain(vertices, working)))
    /\ UNCHANGED <<tsv_file, use_weighted_edges, actor_map, movie_map, vertices, pq,
                   working, start_name, end_name, queried, matVars, predVars, popVars>>

\* the pairs file ends: the files are closed and main returns 0
PathExit ==
    /\ pc = "path_main"
    /\ pc' = "path_done"
    /\ UNCHANGED <<tsv_file, pathVars, matVars, predVars, popVars>>

PathNext == LoadFromFile \/ FindPathBegin \/ PopStep \/ WritePath \/ PathExit

SpecPath == PathInit /\ [][PathNext]_vars

---------------------------------------------------------------------------
(* The three programs on data files that may hold a row of another field   *)
(* count than three                                                         *)

FormatInit ==
    /\ tsv_file \in FormatFiles
    /\ pc \in {"path_start", "predict_start", "popular_start"}
    /\ use_weighted_edges \in (IF pc = "path_start" THEN BOOLEAN ELSE {FALSE})
    /\ k \in (IF pc = "popular_start" THEN KRange ELSE {0})
    /\ actor_map = EmptyMap /\ movie_map = EmptyMap /\ vertices = EmptyMap
    /\ pq = <<>> /\ working = "" /\ start_name = "" /\ end_name = ""
    /\ output = <<>> /\ queried = <<>>
    /\ counts = <<>> /\ not_done = FALSE /\ names = <<>>
    /\ matIdle /\ predIdle

FormatNext == PathNext \/ PredictNext \/ PopularNext

SpecFormat == FormatInit /\ [][FormatNext]_vars

---------------------------------------------------------------------------
(* Claims about pathfinder *)

\* the actors of the loaded graph
GraphActors == DOMAIN actor_map

\* the actors and the movies on a written line, in order
LineActors(line) == [j \in 1..((Len(line) + 2) \div 5) |-> line[5 * (j - 1) + 2]]
LineMovies(line) == [j \in 1..((Len(line) - 3) \div 5) |-> line[5 * (j - 1) + 4]]

\* the co-stars of actor a: <<movie, actor>>
Hops(a) ==
    {x \in Range(actor_map[a]) \X GraphActors :
        x[2] # a /\ x[2] \in Range(movie_map[x[1]].second)}

RECURSIVE Shortest(_, _, _)
\* the least total weight of a path from a to e that visits no actor of
\* `avoid` and no actor twice; INT_MAX when there is none
Shortest(a, e, avoid) ==
    IF a = e THEN 0
    ELSE LET via(x) == LET rest == Shortest(x[2], e, avoid \cup {a})
                       IN  IF rest = INT_MAX THEN INT_MAX
                           ELSE movie_map[x[1]].first + rest
             costs == {via(x) : x \in {y \in Hops(a) : y[2] \notin avoid}} \cup {INT_MAX}
         IN  CHOOSE c \in costs : \A d \in costs : c <= d

Connected(s, e) == Shortest(s, e, {}) < INT_MAX

\* every movie weight is positive (then a walk that repeats an actor is never
\* shorter, and the minimum over all paths is the minimum over simple paths)
PositiveWeights == \A m \in DOMAIN movie_map : movie_map[m].first > 0

\* the line is a chain of hops from s to e through movies that hold both
\* actors of each hop
IsChain(line, s, e) ==
    LET as == LineActors(line)
        ms == LineMovies(line)
    IN  /\ Len(line) % 5 = 3
        /\ as[1] = s
        /\ as[Len(as)] = e
        /\ \A j \in 1..Len(ms) :
               /\ ms[j] \in DOMAIN movie_map
               /\ as[j] \in Range(movie_map[ms[j]].second)
               /\ as[j + 1] \in Range(movie_map[ms[j]].second)

LineWeight(line) ==
    LET ms == LineMovies(line)
    IN  SumSeq([j \in 1..Len(ms) |-> movie_map[ms[j]].first])

\* C1: for every pair of connected actors of the graph the written path is a
\* chain of hops from start to end, each through a movie with both actors in
\* its cast, and its total weight is the minimum over all paths (stated on
\* the data files whose weights are positive, where that minimum exists).
C1_ShortestPath ==
    PositiveWeights =>
        \A i \in 1..Len(output) :
            LET s == queried[i][1]
                e == queried[i][2]
            IN  (s \in GraphActors /\ e \in GraphActors /\ Connected(s, e)) =>
                    /\ IsChain(output[i], s, e)
                    /\ LineWeight(output[i]) = Shortest(s, e, {})

\* C2: for a pair of actors of the graph that no path connects, the line
\* holds the start actor alone: no movie and no other actor.
C2_NoPathSingleNode ==
    \A i \in 1..Len(output) :
        LET s == queried[i][1]
            e == queried[i][2]
        IN  (s \in GraphActors /\ e \in GraphActors /\ ~Connected(s, e)) =>
                output[i] = <<"(", s, ")">>

\* C3: a query whose start or end is not an actor of the graph ends the run
\* with an error: findPath does not return from it and no line is written
\* for the pair.
C3_UnknownActorAborts ==
    \A i \in 1..Len(queried) :
        (queried[i][1] \notin GraphActors \/ queried[i][2] \notin GraphActors) =>
            /\ Len(output) < i
            /\ pc \notin {"path_main", "path_done"}

\* the vertices of a graph on which no query has run, set up for a query
\* from s
FreshVertices(s) ==
    [a \in GraphActors |->
        [dist |-> IF a = s THEN 0 ELSE INT_MAX, done |-> FALSE,
         prev_actor |-> "", prev_movie |-> ""]]

RECURSIVE Search(_, _, _)
\* the frontier loop run to its end from vertices V and queue h:
\* <<vertices, last vertex popped>>
Search(V, h, e) ==
    LET w  == h[1]
        h1 == PqPop(V, h)
    IN  IF w = e THEN <<V, w>>
        ELSE IF V[w].done
        THEN (IF h1 = <<>> THEN <<V, w>> ELSE Search(V, h1, e))
        ELSE LET r == RelaxMovies([V EXCEPT ![w].done = TRUE], h1, w, actor_map[w])
             IN  IF r[2] = <<>> THEN <<r[1], w>> ELSE Search(r[1], r[2], e)

\* what the query (s, e) gives as the only query on the loaded graph
Alone(s, e) ==
    LET r == Search(FreshVertices(s), <<s>>, e)
    IN  IF WalkLoops(r[1], r[2], {})
        THEN [hung |-> TRUE, line |-> <<>>]
        ELSE [hung |-> FALSE, line |-> FormatPath(Chain(r[1], r[2]))]

KnownPair(q) == q[1] \in GraphActors /\ q[2] \in GraphActors

\* C11: for a pair of actors of the graph, findPath gives what it gives as
\* the only query on the loaded graph, whatever queries ran before: the same
\* line (so the same total weight), or the same walk without end.
C11_QueriesIndependent ==
    /\ \A i \in 1..Len(output) :
           KnownPair(queried[i]) =>
               /\ ~Alone(queried[i][1], queried[i][2]).hung
               /\ output[i] = Alone(queried[i][1], queried[i][2]).line
    /\ (pc = "path_hung" /\ KnownPair(queried[Len(queried)])) =>
           Alone(queried[Len(queried)][1], queried[Len(queried)][2]).hung

\* a second query from another start, after a first one that left distances
\* and predecessors behind, has written a path with a hop
C11_Witness ==
    /\ pc = "path_main"
    /\ Len(output) = 2
    /\ KnownPair(queried[1]) /\ KnownPair(queried[2])
    /\ queried[1][1] # queried[2][1]
    /\ Len(output[1]) > 3
    /\ Len(output[2]) > 3

---------------------------------------------------------------------------
(* Claims about the adjacency matrix programs *)

Ids == 1..Len(int_to_name)

\* the name is an actor of the data file
Known(name) == name \in Range(int_to_name)

IdOf(name) == CHOOSE i \in Ids : int_to_name[i] = name

\* the names written on a line of FindInteractions
NamesOn(line) == SelectSeq(line, LAMBDA t : t # "\t")

\* the actors connected to both u and v in the matrix
CommonNeighbours(u, v) == {w \in Ids : graph[u][w] = 1 /\ graph[v][w] = 1}

Mutual(u, v) == IF v = u THEN 0 ELSE Cardinality(CommonNeighbours(u, v))

KnownTargets == {t \in 1..Len(actors) : Known(actors[t])}

HasCoreProperty(S) ==
    \A a \in S : Cardinality({b \in S \ {a} : graph[a][b] = 1}) >= k

Written == {i \in Ids : int_to_name[i] \in Range(names)}

\* C4: the actors written by popularityfinder are the k-core: each written
\* actor is connected to at least k other written actors, and no strictly
\* larger set of actors has that property.
C4_KCore ==
    pc = "popular_done" =>
        /\ HasCoreProperty(Written)
        /\ \A S \in SUBSET Ids : (Written \subseteq S /\ S # Written) => ~HasCoreProperty(S)

\* C5: for every target u of the data file and every other actor v, the
\* score mutual(v) is the number of actors connected to both u and v;
\* mutual(u) is 0 and u is on neither of its own lines.
C5_MutualScores ==
    pc \in {"predict_interact", "predict_done"} =>
        \A t \in KnownTargets :
            LET u == IdOf(actors[t])
            IN  /\ \A v \in Ids \ {u} :
                       mutual_count[t][v] = Cardinality(CommonNeighbours(u, v))
                /\ mutual_count[t][u] = 0
                /\ actors[t] \notin Range(interact_file[t])
                /\ pc = "predict_done" => actors[t] \notin Range(collab_file[t])

C5_Witness ==
    /\ pc = "predict_done"
    /\ \E t \in KnownTargets :
         /\ \E v \in Ids \ {IdOf(actors[t])} : mutual_count[t][v] >= 2
         /\ graph[IdOf(actors[t])][IdOf(actors[t])] = 0
         /\ interact_file[t] # <<>>
         /\ collab_file[t] # <<>>

Qualifying(u, nb) ==
    {v \in Ids : graph[u][v] = (IF nb THEN 1 ELSE 0) /\ Mutual(u, v) > 0}

RankedBefore(u, a, b) ==
    \/ Mutual(u, a) > Mutual(u, b)
    \/ Mutual(u, a) = Mutual(u, b) /\ StrLess(int_to_name[a], int_to_name[b])

TopRanked(u, nb, line) ==
    LET w == NamesOn(line)
        Q == Qualifying(u, nb)
    IN  /\ Len(w) = Min(4, Cardinality(Q))
        /\ \A i \in 1..Len(w) : Known(w[i]) /\ IdOf(w[i]) \in Q
        /\ \A i \in 1..Len(w) : \A j \in (i + 1)..Len(w) :
               RankedBefore(u, IdOf(w[i]), IdOf(w[j]))
        /\ \A c \in Q : int_to_name[c] \notin Range(w) =>
               \A i \in 1..Len(w) : RankedBefore(u, IdOf(w[i]), c)

\* C6: the names written for a target of the data file are the first min(4, q) of the q
\* candidates of the mode with mutual > 0, by descending mutual and then
\* ascending name; no candidate with mutual = 0 and never more than 4.
C6_TopFourRanked ==
    /\ pc \in {"predict_interact", "predict_done"} =>
           \A t \in KnownTargets : TopRanked(IdOf(actors[t]), TRUE, interact_file[t])
    /\ pc = "predict_done" =>
           \A t \in KnownTargets : TopRanked(IdOf(actors[t]), FALSE, collab_file[t])

C6_Witness ==
    /\ pc = "predict_done"
    /\ \E t \in KnownTargets :
         LET u == IdOf(actors[t])
         IN  /\ Cardinality(Qualifying(u, TRUE)) >= 5
             /\ Len(NamesOn(interact_file[t])) = 4
             /\ \E a, b \in Qualifying(u, TRUE) : Mutual(u, a) > Mutual(u, b)
             /\ \E a, b \in Qualifying(u, TRUE) : a # b /\ Mutual(u, a) = Mutual(u, b)

\* C7: for a target of the data file, a name written in predict mode is connected to the target, a name
\* written in recommend mode is not, so no name is on both lines of a target.
C7_ModesDisjoint ==
    /\ pc \in {"predict_interact", "predict_done"} =>
           \A t \in KnownTargets : \A nm \in Range(NamesOn(interact_file[t])) :
               Known(nm) /\ graph[IdOf(actors[t])][IdOf(nm)] = 1
    /\ pc = "predict_done" =>
           \A t \in KnownTargets :
               /\ \A nm \in Range(NamesOn(collab_file[t])) :
                      Known(nm) /\ graph[IdOf(actors[t])][IdOf(nm)] = 0
               /\ Range(NamesOn(interact_file[t])) \cap Range(NamesOn(collab_file[t])) = {}

C7_Witness ==
    /\ pc = "predict_done"
    /\ \E t \in KnownTargets : interact_file[t] # <<>> /\ collab_file[t] # <<>>

TabSeparated(line) ==
    LET w == NamesOn(line)
    IN  line = [i \in 1..(2 * Len(w) - 1) |->
                   IF i % 2 = 1 THEN w[(i + 1) \div 2] ELSE "\t"]

\* C8: a line is its names separated by single tabs, with no tab after the
\* last name, for 1 to 4 names; it is empty when no candidate qualifies.
\* (Stated for the targets that are actors of the data file, on matrices with
\* a zero diagonal.)
C8_NoTrailingTab ==
    (\A i \in Ids : graph[i][i] = 0) =>
        /\ \A t \in KnownTargets \cap (1..Len(interact_file)) :
               TabSeparated(interact_file[t])
        /\ \A t \in KnownTargets \cap (1..Len(collab_file)) :
               TabSeparated(collab_file[t])

\* C9: after BuildStructures the matrix is symmetric and its diagonal is 0.
C9_SymmetricZeroDiagonal ==
    pc # "popular_start" =>
        \A i \in Ids : graph[i][i] = 0 /\ \A j \in Ids : graph[i][j] = graph[j][i]

ShareMovie(a, b) ==
    \E r1 \in Range(tsv_file) : \E r2 \in Range(tsv_file) :
        r1[1] = a /\ r2[1] = b /\ r1[2] = r2[2] /\ r1[3] = r2[3]

\* C10: after BuildStructures two distinct actors are connected iff some
\* movie, identified by (title, year), has both in its cast.
C10_ConnectedIffShareMovie ==
    pc # "predict_start" =>
        \A i \in Ids : \A j \in Ids \ {i} :
            graph[i][j] = 1 <=> ShareMovie(int_to_name[i], int_to_name[j])

\* the multigraph maps of pathfinder are as loadFromFile left them, and the
\* vertices are those of the actors
PathGraphAsBuilt ==
    LET st == LoadRows([actor_map |-> EmptyMap, movie_map |-> EmptyMap, ok |-> TRUE],
                       tsv_file, use_weighted_edges)
    IN  /\ actor_map = st.actor_map
        /\ movie_map = st.movie_map
        /\ DOMAIN vertices = DOMAIN st.actor_map

\* the registry and the matrix are as BuildStructures left them
MatrixAsBuilt ==
    LET st == ReadTsv(tsv_file)
    IN  /\ name_to_int = st.name_to_int
        /\ int_to_name = st.int_to_name
        /\ graph = AdjacencyMatrix(st.name_to_int, st.movie_to_actor, Len(st.int_to_name))

\* name_to_int maps the actor names of the data file one to one onto
\* 0..n-1 and is the inverse of int_to_name
RegistryBijection ==
    /\ DOMAIN name_to_int = Range(int_to_name)
    /\ \A i \in Ids : name_to_int[int_to_name[i]] = i - 1
    /\ \A a \in DOMAIN name_to_int : \A b \in DOMAIN name_to_int :
           name_to_int[a] = name_to_int[b] => a = b

\* C12: after any sequence of queries the registry, the adjacency matrix and
\* the multigraph maps are as the build left them, and name_to_int is still
\* a bijection between the actor names of the data file and 0..n-1, inverse
\* to int_to_name.
C12_GraphReadOnly ==
    /\ pc \in {"predict_built", "predict_interact", "predict_done"} =>
           MatrixAsBuilt /\ RegistryBijection
    /\ pc \in {"path_main", "path_loop", "path_walk", "path_done"} => PathGraphAsBuilt

RECURSIVE Peel(_, _, _)
\* the pruning passes repeated until one removes nobody
Peel(c, g, kk) ==
    LET r == PrunePassFrom(c, g, kk, 1, FALSE)
    IN  IF r[2] THEN Peel(r[1], g, kk) ELSE r[1]

\* the names popularityfinder writes for the rows of the data file that are
\* rows of the written actors, with the same k
PeelSurvivors ==
    LET rows == SelectSeq(tsv_file, LAMBDA r : r[1] \in Range(names))
        st   == ReadTsv(rows)
        g    == AdjacencyMatrix(st.name_to_int, st.movie_to_actor, Len(st.int_to_name))
    IN  SortNames(Kept(Peel(InitCounts(g), g, k), st.int_to_name, k, 1))

\* C13: the peeling run again with the same k on the graph of the written
\* actors alone removes nobody: it writes the same names.
C13_PeelIdempotent == pc = "popular_done" => PeelSurvivors = names

\* a run that removed some actors and kept others
C13_Witness ==
    /\ pc = "popular_done"
    /\ k >= 2
    /\ names # <<>>
    /\ Len(names) < Len(int_to_name)

\* some row of the data file has not three fields
Malformed == \E i \in 1..Len(tsv_file) : Len(tsv_file[i]) # 3

\* the program has not got past the reading of the data file
BuildNotPassed ==
    pc \in {"path_start", "path_read_error", "predict_start", "predict_segv",
            "popular_start", "popular_segv"}

\* C14: in each of the three programs a data file with a row that has not
\* three fields makes the build fail: the program does not get past the
\* build, no query runs and nothing is written from the graph.  (Stated for
\* the rows of more than three fields; what the matrix programs do with a
\* shorter row is not defined.)
C14_MalformedRowAborts ==
    (Malformed /\ ~HasShortRecord(tsv_file)) =>
        /\ BuildNotPassed
        /\ queried = <<>> /\ output = <<>>
        /\ interact_file = <<>> /\ collab_file = <<>>
        /\ names = <<>>

\* a step of the frontier loop of one query
LoopStep == pc = "path_loop" /\ pc' \in {"path_loop", "path_walk"}

\* the distance and the predecessor of every vertex that is done stay
DoneKept ==
    \A a \in DOMAIN vertices :
        vertices[a].done =>
            /\ vertices'[a].done
            /\ vertices'[a].dist = vertices[a].dist
            /\ vertices'[a].prev_actor = vertices[a].prev_actor
            /\ vertices'[a].prev_movie = vertices[a].prev_movie

\* C15: within one query, once a vertex is popped and marked done, its
\* distance, predecessor actor and predecessor movie are not modified again.
\* (Stated on the data files whose weights are positive.)
C15_DonePermanent == [][(LoopStep /\ PositiveWeights) => DoneKept]_vars

\* C16: the entry the next pop returns (the top of the queue) has the least
\* current distance of all entries in the queue.  (Stated for the distance
\* alone, on the data files whose weights are positive.)
C16_PopsMinimum ==
    (pc = "path_loop" /\ PositiveWeights) =>
        \A i \in 1..Len(pq) : vertices[pq[1]].dist <= vertices[pq[i]].dist

\* C17: for every data file and every pair of actors of the graph the query
\* ends: the walk back over the predecessors reaches a vertex without
\* predecessor.
C17_FindPathTerminates ==
    (queried # <<>> /\ KnownPair(queried[Len(queried)])) => pc # "path_hung"

=============================================================================
